---- MODULE Spec2Model ----
(***************************************************************************)
(* Model of the conversational RAG pipeline of the Ads Manager assistant:  *)
(* the Streamlit page script (src/app.py), the chain it drives             *)
(* (src/src/openai_chain.py), the vector store connector                   *)
(* (src/src/vectorstore.py) and the ingestion script (src/ingest.py).      *)
(*                                                                         *)
(* Python lists have identity.  st.session_state[history_<sid>] of a       *)
(* browser session holds one list; StreamlitChatMessageHistory keeps a     *)
(* reference to that list; the chain cached by st.cache_resource keeps the *)
(* StreamlitChatMessageHistory it was constructed with, for the life of    *)
(* the process.  The model keeps the live list of every (browser, session  *)
(* id) in hist, and records for the cached chain whether its list is       *)
(* still the live list of some (browser, session id) (chain.alias) or a    *)
(* list that session_state no longer refers to (chain.own).                *)
(***************************************************************************)
EXTENDS Integers, Sequences, FiniteSets, TLC

\* ---------------------------------------------------------------- bounds
MaxTurns == 2
\* Most ads in the input file of one ingestion run.
MaxAds == 201
\* Most result pages the ads API chains with 'next' links.
MaxPages == 3

\* ------------------------------------------------------- program constants
K == 5
\* batch_size of the upsert loop of ingest_data_script.
BatchSize == 100

\* ------------------------------------------------------------ small sets
Browsers == {"b1", "b2"}
\* Spec runs one browser session; SpecConc runs both.
Solo == {"b1"}
SessionIds == {"s1", "s2"}
NoSid == "none"
Chunks == {"c1", "c2"}
\* An index that holds more chunks than one search returns.
BigChunks == {"c1", "c2", "c3", "c4", "c5", "c6"}
NoAlias == <<>>

\* Texts are sequences of tokens; " " is a whitespace token.
UserInputs == {<<>>, <<" ">>, <<"q">>}
NoInput == <<"-">>
Rewritten == <<"standalone">>
Grounded == <<"answer">>
Insufficient == <<"The provided data does not contain enough information to answer this question.">>

USER == "human"
ASSISTANT == "ai"

HumanMessage(c) == [role |-> USER, content |-> c]
AIMessage(c) == [role |-> ASSISTANT, content |-> c]

\* str.strip(): drop leading and trailing whitespace tokens.
RECURSIVE LStrip(_)
LStrip(s) == IF s # <<>> /\ Head(s) = " " THEN LStrip(Tail(s)) ELSE s

RECURSIVE RStrip(_)
RStrip(s) == IF s # <<>> /\ s[Len(s)] = " " THEN RStrip(SubSeq(s, 1, Len(s) - 1)) ELSE s

Trim(s) == RStrip(LStrip(s))

\* Python truthiness of a str: the walrus test of the chat input.
Truthy(s) == Len(s) > 0

VARIABLES
    index,        \* the Pinecone index: exists, and the chunks it holds
    chain,        \* the st.cache_resource entry of load_rag_chain
    stored,       \* the session store (load_chat_history / save_chat_history)
    usedIds,      \* session ids uuid4 has handed out
    authStatus,   \* st.session_state["authentication_status"] per browser
    sessionId,    \* st.session_state.session_id per browser
    hist,         \* st.session_state["history_<sid>"] per browser and sid
    pc,           \* position of the browser's script run
    pending,      \* value st.chat_input returns in this script run
    turn,         \* the turn in flight: chain inputs, outputs, calls made
    outcome,      \* how the browser's last script run ended
    turnsStarted, \* number of chat inputs submitted (bounded)
    ingest,       \* a run of ingest_data_script: its locals and its upserts
    compose,      \* the filter preamble of one chat input (backup app)
    fetch         \* a run of fetch_all_ads: its locals and the pages served

\* The state of the chat application, and the state of the offline scripts.
app == <<index, chain, stored, usedIds, authStatus, sessionId, hist, pc,
         pending, turn, outcome, turnsStarted>>
scripts == <<ingest, compose, fetch>>

vars == <<index, chain, stored, usedIds, authStatus, sessionId, hist, pc,
          pending, turn, outcome, turnsStarted, ingest, compose, fetch>>

\* No script is running.
NoScript == [pc |-> "idle"]
ScriptsIdle == ingest = NoScript /\ compose = NoScript /\ fetch = NoScript

NoChunks == <<"-">>
NoPrompt == <<>>
NoTurn == [input |-> NoInput, sid |-> NoSid, memBefore |-> <<>>,
           history |-> <<>>, standalone |-> NoInput, query |-> NoInput,
           k |-> 0, chunks |-> NoChunks, context |-> NoChunks,
           qprompt |-> NoPrompt, prompt |-> NoPrompt, answer |-> NoInput,
           error |-> "none", fault |-> "none", raised |-> "none",
           calls |-> <<>>]

\* The ChainContext of a call is discarded when the call ends; the turn's
\* input, answer and the memory it started from stay for the record.
Discard(t) == [t EXCEPT !.history = <<>>, !.standalone = NoInput,
                        !.query = NoInput, !.chunks = NoChunks,
                        !.context = NoChunks, !.qprompt = NoPrompt,
                        !.prompt = NoPrompt]

\* The list the cached chain's chat_memory refers to.
ChainMem == IF chain.alias = NoAlias THEN chain.own
            ELSE hist[chain.alias[1]][chain.alias[2]]

\* The in-process ConversationMemory browser b shows for session s.
Memory(b, s) == hist[b][s]

\* One [human, ai] pair as a turn of an earlier run of the server saved it.
SavedPair == <<HumanMessage(<<"q">>), AIMessage(Grounded)>>

\* A server process has just started: nothing is cached and no browser
\* session exists.  What persists outside the process is either nothing (a
\* first deployment: no index, empty store) or what an earlier run left:
\* the index and the saved conversation s1.
Init ==
    /\ ScriptsIdle
    /\ \/ /\ index = [exists |-> FALSE, chunks |-> {}]
          /\ stored = [s \in SessionIds |-> <<>>]
          /\ usedIds = {}
       \/ /\ index = [exists |-> TRUE, chunks |-> Chunks]
          /\ stored = [s \in SessionIds |-> IF s = "s1" THEN SavedPair ELSE <<>>]
          /\ usedIds = {"s1"}
    /\ chain = [built |-> FALSE, alias |-> NoAlias, own |-> <<>>, k |-> 0]
    /\ authStatus = [b \in Browsers |-> "none"]
    /\ sessionId = [b \in Browsers |-> NoSid]
    /\ hist = [b \in Browsers |-> [s \in SessionIds |-> <<>>]]
    /\ pc = [b \in Browsers |-> "idle"]
    /\ pending = [b \in Browsers |-> NoInput]
    /\ turn = [b \in Browsers |-> NoTurn]
    /\ outcome = [b \in Browsers |-> "none"]
    /\ turnsStarted = 0

\* ------------------------------------------------------------ helpers
\* list.append on the list the chain's chat_memory refers to.
ChainAppend(m) ==
    IF chain.alias = NoAlias
    THEN /\ chain' = [chain EXCEPT !.own = Append(@, m)]
         /\ UNCHANGED hist
    ELSE /\ hist' = [hist EXCEPT ![chain.alias[1]][chain.alias[2]] = Append(@, m)]
         /\ UNCHANGED chain

\* str(uuid.uuid4()): an id no session has had; ids are opaque, so the
\* choice among the unused ones is fixed.
HasFreshId == SessionIds \ usedIds # {}
FreshId == CHOOSE s \in SessionIds \ usedIds : TRUE

\* get_saved_sessions: the session ids that have a saved record.
SavedSessions == {s \in SessionIds : stored[s] # <<>>}

\* load_chat_history returns a new list holding the saved messages.
LoadChatHistory(s) == stored[s]

Range(q) == {q[i] : i \in 1..Len(q)}

\* The sequences of n distinct elements of S.
RECURSIVE Distinct(_, _)
Distinct(S, n) ==
    IF n = 0 THEN {<<>>}
    ELSE UNION {{Append(q, c) : c \in S \ Range(q)} : q \in Distinct(S, n - 1)}

\* Ordered results of a similarity search with top_k = k: at most k distinct
\* chunks of the index.
RetrieverResults(k) ==
    LET m == IF k < Cardinality(index.chunks) THEN k ELSE Cardinality(index.chunks)
    IN UNION {Distinct(index.chunks, n) : n \in 0..m}

\* ---------------------------------------------------- the answer prompt
\* The text of the chunk a Document holds.
PageContent(c) == <<c>>

\* repr() of a Document, as str() of a list prints its elements.
DocumentRepr(c) == <<"Document(metadata={...}, page_content='">> \o PageContent(c) \o <<"')">>

\* sep.join(parts), on token sequences.
RECURSIVE Join(_, _)
Join(parts, sep) ==
    IF parts = <<>> THEN <<>>
    ELSE IF Len(parts) = 1 THEN parts[1]
    ELSE parts[1] \o <<sep>> \o Join(Tail(parts), sep)

\* FormatContext, but the Documents are printed last to first.
FormatContext_Reversed(docs) ==
    <<"[">> \o Join([i \in 1..Len(docs) |-> DocumentRepr(docs[Len(docs) + 1 - i])], ", ")
          \o <<"]">>

\* qa_prompt fills {context} by str.format with the value of the context
\* key, the list of Documents the retriever returned: str() of that list.
FormatContext(docs) ==
    <<"[">> \o Join([i \in 1..Len(docs) |-> DocumentRepr(docs[i])], ", ") \o <<"]">>

\* qa_system_prompt up to and including "Context:\n".
QaSystemPrompt == <<"qa_system_prompt", "Context:", "\n">>

SystemMessage(c) == [role |-> "system", content |-> c]

\* qa_prompt: system message, MessagesPlaceholder("chat_history"), human {input}.
QaPrompt(docs, history, input) ==
    <<SystemMessage(QaSystemPrompt \o FormatContext(docs))>>
        \o history \o <<HumanMessage(input)>>

\* contextualize_q_system_prompt.
ContextualizeSystemPrompt == <<"contextualize_q_system_prompt">>

\* contextualize_q_prompt: system message, MessagesPlaceholder("chat_history"),
\* human {input}.
ContextualizePrompt(history, input) ==
    <<SystemMessage(ContextualizeSystemPrompt)>> \o history \o <<HumanMessage(input)>>

\* What a failing service client raises; the chain has no except clause.
ServiceError(stage) ==
    IF stage = "retrieve" THEN "vectorstore client error" ELSE "chat client error"

\* The script run of b reached st.chat_input in its last run.
InputShown(b) == outcome[b] \in {"shown", "rejected", "committed", "failed", "stopped_turn"}

YieldPoints == {"init", "chain", "input", "enter", "add_ai", "save"}

\* ------------------------------------------------- environment actions
\* ingest.py: create the index when missing, upsert the batches that succeed.
RunIngest ==
    /\ UNCHANGED scripts
    /\ \E S \in SUBSET Chunks :
          index' = [exists |-> TRUE, chunks |-> index.chunks \cup S]
    /\ index' # index
    /\ UNCHANGED <<chain, stored, usedIds, authStatus, sessionId, hist, pc,
                   pending, turn, outcome, turnsStarted>>

\* ------------------------------------------------------- UI events
\* Login, but the gatekeeper runs the chat body whatever the login returned.
Login_NoGate(b, ok) ==
    /\ UNCHANGED scripts
    /\ pc[b] = "idle"
    /\ authStatus[b] # "true"
    /\ sessionId[b] # NoSid \/ HasFreshId
    /\ authStatus' = [authStatus EXCEPT ![b] = IF ok THEN "true" ELSE "false"]
    /\ pc' = [pc EXCEPT ![b] = "init"]
    /\ pending' = [pending EXCEPT ![b] = NoInput]
    /\ turn' = [turn EXCEPT ![b] = NoTurn]
    /\ outcome' = [outcome EXCEPT ![b] = "running"]
    /\ UNCHANGED <<index, chain, stored, usedIds, sessionId, hist,
                   turnsStarted>>

\* authenticator.login() and the gatekeeper: the chat body runs only when
\* authentication_status is true.
Login(b, ok) ==
    /\ UNCHANGED scripts
    /\ pc[b] = "idle"
    /\ authStatus[b] # "true"
    /\ sessionId[b] # NoSid \/ HasFreshId
    /\ authStatus' = [authStatus EXCEPT ![b] = IF ok THEN "true" ELSE "false"]
    /\ pc' = [pc EXCEPT ![b] = IF ok THEN "init" ELSE "idle"]
    /\ pending' = [pending EXCEPT ![b] = NoInput]
    /\ turn' = [turn EXCEPT ![b] = NoTurn]
    /\ outcome' = [outcome EXCEPT ![b] = IF ok THEN "running" ELSE "none"]
    /\ UNCHANGED <<index, chain, stored, usedIds, sessionId, hist,
                   turnsStarted>>

Logout(b) ==
    /\ UNCHANGED scripts
    /\ pc[b] = "idle"
    /\ authStatus[b] = "true"
    /\ authStatus' = [authStatus EXCEPT ![b] = "none"]
    /\ outcome' = [outcome EXCEPT ![b] = "none"]
    /\ turn' = [turn EXCEPT ![b] = NoTurn]
    /\ UNCHANGED <<index, chain, stored, usedIds, sessionId, hist, pc,
                   pending, turnsStarted>>

\* NewChat, but the messages of the conversation that was current are
\* carried over into the new one.
NewChat_KeepsHistory(b) ==
    /\ UNCHANGED scripts
    /\ pc[b] = "idle"
    /\ authStatus[b] = "true"
    /\ outcome[b] # "none"
    /\ HasFreshId
    /\ sessionId' = [sessionId EXCEPT ![b] = FreshId]
    /\ usedIds' = usedIds \cup {FreshId}
    /\ hist' = [hist EXCEPT ![b][FreshId] =
                   IF sessionId[b] = NoSid THEN <<>> ELSE hist[b][sessionId[b]]]
    /\ pc' = [pc EXCEPT ![b] = "init"]
    /\ pending' = [pending EXCEPT ![b] = NoInput]
    /\ turn' = [turn EXCEPT ![b] = NoTurn]
    /\ outcome' = [outcome EXCEPT ![b] = "running"]
    /\ UNCHANGED <<index, chain, stored, authStatus, turnsStarted>>

\* "New Chat": a fresh uuid4 becomes the session id, its history key is
\* deleted if present, and the script reruns.
NewChat(b) ==
    /\ UNCHANGED scripts
    /\ pc[b] = "idle"
    /\ authStatus[b] = "true"
    /\ outcome[b] # "none"
    /\ HasFreshId
    /\ sessionId' = [sessionId EXCEPT ![b] = FreshId]
    /\ usedIds' = usedIds \cup {FreshId}
    /\ hist' = [hist EXCEPT ![b][FreshId] = <<>>]
    /\ pc' = [pc EXCEPT ![b] = "init"]
    /\ pending' = [pending EXCEPT ![b] = NoInput]
    /\ turn' = [turn EXCEPT ![b] = NoTurn]
    /\ outcome' = [outcome EXCEPT ![b] = "running"]
    /\ UNCHANGED <<index, chain, stored, authStatus, turnsStarted>>

\* A past conversation's button: only the current session id changes.
SelectSession(b, s) ==
    /\ UNCHANGED scripts
    /\ pc[b] = "idle"
    /\ authStatus[b] = "true"
    /\ outcome[b] # "none"
    /\ s \in SavedSessions
    /\ s # sessionId[b]
    /\ sessionId' = [sessionId EXCEPT ![b] = s]
    /\ pc' = [pc EXCEPT ![b] = "init"]
    /\ pending' = [pending EXCEPT ![b] = NoInput]
    /\ turn' = [turn EXCEPT ![b] = NoTurn]
    /\ outcome' = [outcome EXCEPT ![b] = "running"]
    /\ UNCHANGED <<index, chain, stored, usedIds, authStatus, hist,
                   turnsStarted>>

\* The user submits text in st.chat_input: the script reruns and the
\* widget returns the text in that run.
Submit(b, text) ==
    /\ UNCHANGED scripts
    /\ pc[b] = "idle"
    /\ authStatus[b] = "true"
    /\ InputShown(b)
    /\ turnsStarted < MaxTurns
    /\ turnsStarted' = turnsStarted + 1
    /\ pc' = [pc EXCEPT ![b] = "init"]
    /\ pending' = [pending EXCEPT ![b] = text]
    /\ turn' = [turn EXCEPT ![b] = NoTurn]
    /\ outcome' = [outcome EXCEPT ![b] = "running"]
    /\ UNCHANGED <<index, chain, stored, usedIds, authStatus, sessionId,
                   hist>>

\* A rerun request or a disconnect stops the running script at its next
\* Streamlit call.
StopScript(b) ==
    /\ UNCHANGED scripts
    /\ pc[b] \in YieldPoints
    /\ pc' = [pc EXCEPT ![b] = "idle"]
    /\ outcome' = [outcome EXCEPT ![b] =
                      IF pc[b] \in {"enter", "add_ai", "save"}
                      THEN "stopped_turn" ELSE "stopped_early"]
    /\ pending' = [pending EXCEPT ![b] = NoInput]
    /\ turn' = [turn EXCEPT ![b] = Discard(@)]
    /\ UNCHANGED <<index, chain, stored, usedIds, authStatus, sessionId,
                   hist, turnsStarted>>


\* ------------------------------------------------- the page script run
\* SessionInit, but the saved messages replace the history list on every
\* page run, empty or not.
SessionInit_AlwaysLoad(b) ==
    /\ UNCHANGED scripts
    /\ pc[b] = "init"
    /\ sessionId[b] = NoSid => HasFreshId
    /\ LET s == IF sessionId[b] = NoSid THEN FreshId ELSE sessionId[b] IN
          /\ sessionId' = [sessionId EXCEPT ![b] = s]
          /\ usedIds' = usedIds \cup {s}
          /\ hist' = [hist EXCEPT ![b][s] = LoadChatHistory(s)]
          /\ chain' = IF chain.alias = <<b, s>>
                      THEN [chain EXCEPT !.alias = NoAlias, !.own = hist[b][s]]
                      ELSE chain
    /\ pc' = [pc EXCEPT ![b] = "chain"]
    /\ UNCHANGED <<index, stored, authStatus, pending, turn, outcome,
                   turnsStarted>>

\* app.py 89-99: default the session id, bind the history list of the
\* session, and replace it by the saved messages when it is empty.
SessionInit(b) ==
    /\ UNCHANGED scripts
    /\ pc[b] = "init"
    /\ sessionId[b] = NoSid => HasFreshId
    /\ LET s == IF sessionId[b] = NoSid THEN FreshId ELSE sessionId[b] IN
          /\ sessionId' = [sessionId EXCEPT ![b] = s]
          /\ usedIds' = usedIds \cup {s}
          /\ IF hist[b][s] = <<>>
             THEN /\ hist' = [hist EXCEPT ![b][s] = LoadChatHistory(s)]
                  /\ chain' = IF chain.alias = <<b, s>>
                              THEN [chain EXCEPT !.alias = NoAlias, !.own = <<>>]
                              ELSE chain
             ELSE UNCHANGED <<hist, chain>>
    /\ pc' = [pc EXCEPT ![b] = "chain"]
    /\ UNCHANGED <<index, stored, authStatus, pending, turn, outcome,
                   turnsStarted>>

\* LoadChain, but the connector does not look for the index: the chain is
\* constructed and cached whether the index exists or not.
LoadChain_NoIndexCheck(b) ==
    /\ UNCHANGED scripts
    /\ pc[b] = "chain"
    /\ IF chain.built
       THEN UNCHANGED chain
       ELSE chain' = [built |-> TRUE, alias |-> <<b, sessionId[b]>>, own |-> <<>>,
                      k |-> K]
    /\ pc' = [pc EXCEPT ![b] = "input"]
    /\ UNCHANGED <<index, stored, usedIds, authStatus, sessionId, hist, turn,
                   turnsStarted, outcome, pending>>

\* app.py 102, load_rag_chain: the cached chain, or OpenAIRAGChain(chat_history)
\* on the first call; VectorDB() raises when the index does not exist.
LoadChain(b) ==
    /\ UNCHANGED scripts
    /\ pc[b] = "chain"
    /\ IF chain.built
       THEN /\ pc' = [pc EXCEPT ![b] = "input"]
            /\ UNCHANGED <<chain, outcome, pending>>
       ELSE IF index.exists
       THEN /\ chain' = [built |-> TRUE, alias |-> <<b, sessionId[b]>>, own |-> <<>>,
                       k |-> K]
            /\ pc' = [pc EXCEPT ![b] = "input"]
            /\ UNCHANGED <<outcome, pending>>
       ELSE /\ pc' = [pc EXCEPT ![b] = "idle"]
            /\ outcome' = [outcome EXCEPT ![b] = "error_chain"]
            /\ pending' = [pending EXCEPT ![b] = NoInput]
            /\ UNCHANGED chain
    /\ UNCHANGED <<index, stored, usedIds, authStatus, sessionId, hist, turn,
                   turnsStarted>>

\* app.py 116-120: the walrus test of the chat input; a truthy input is
\* appended to the history as the user message before the chain runs.
HandleInput(b) ==
    /\ UNCHANGED scripts
    /\ pc[b] = "input"
    /\ IF pending[b] # NoInput /\ Truthy(pending[b])
       THEN /\ turn' = [turn EXCEPT ![b] =
                          [NoTurn EXCEPT !.input = pending[b],
                                         !.sid = sessionId[b],
                                         !.memBefore = hist[b][sessionId[b]]]]
            /\ hist' = [hist EXCEPT ![b][sessionId[b]] = Append(@, HumanMessage(pending[b]))]
            /\ pc' = [pc EXCEPT ![b] = "enter"]
            /\ UNCHANGED outcome
       ELSE /\ pc' = [pc EXCEPT ![b] = "idle"]
            /\ outcome' = [outcome EXCEPT ![b] =
                              IF pending[b] = NoInput THEN "shown" ELSE "rejected"]
            /\ UNCHANGED <<turn, hist>>
    /\ pending' = [pending EXCEPT ![b] = NoInput]
    /\ UNCHANGED <<index, chain, stored, usedIds, authStatus, sessionId,
                   turnsStarted>>

\* openai_chain.py 99-102 into RunnableWithMessageHistory: the history is
\* read once from the chain's chat_memory.
EnterHistory(b) ==
    /\ UNCHANGED scripts
    /\ pc[b] = "enter"
    /\ turn' = [turn EXCEPT ![b].history = ChainMem]
    /\ pc' = [pc EXCEPT ![b] = "rewrite"]
    /\ UNCHANGED <<index, chain, stored, usedIds, authStatus, sessionId, hist,
                   pending, outcome, turnsStarted>>

\* An exception leaves chain.run and ends the script run;
\* fault names the external service that failed, error the stage the
\* exception came out of.
Raise(b, stage, fault) ==
    /\ turn' = [turn EXCEPT ![b] = [Discard(@) EXCEPT !.error = stage,
                                                      !.fault = fault,
                                                      !.raised = ServiceError(stage),
                                                      !.calls = Append(@, stage)]]
    /\ pc' = [pc EXCEPT ![b] = "idle"]
    /\ outcome' = [outcome EXCEPT ![b] = "failed"]

\* Rewrite, but a fault of the model is retried once.
Rewrite_RetryOnFault(b) ==
    /\ UNCHANGED scripts
    /\ pc[b] = "rewrite"
    /\ \/ \E out \in {turn[b].input, Rewritten} :
             /\ turn' = [turn EXCEPT ![b].standalone = out,
                                     ![b].qprompt = ContextualizePrompt(turn[b].history,
                                                                        turn[b].input),
                                     ![b].calls = Append(@, "rewrite")]
             /\ pc' = [pc EXCEPT ![b] = "retrieve"]
             /\ UNCHANGED outcome
       \/ IF turn[b].calls = <<>>
          THEN /\ turn' = [turn EXCEPT ![b].calls = Append(@, "rewrite")]
               /\ UNCHANGED <<pc, outcome>>
          ELSE Raise(b, "rewrite", "rewrite")
    /\ UNCHANGED <<index, chain, stored, usedIds, authStatus, sessionId, hist,
                   pending, turnsStarted>>

\* contextualize_q_prompt | llm | StrOutputParser: the model is called with
\* the system prompt, the history and the input, whatever the history is.
Rewrite(b) ==
    /\ UNCHANGED scripts
    /\ pc[b] = "rewrite"
    /\ \/ \E out \in {turn[b].input, Rewritten} :
             /\ turn' = [turn EXCEPT ![b].standalone = out,
                                     ![b].qprompt = ContextualizePrompt(turn[b].history,
                                                                        turn[b].input),
                                     ![b].calls = Append(@, "rewrite")]
             /\ pc' = [pc EXCEPT ![b] = "retrieve"]
             /\ UNCHANGED outcome
       \/ Raise(b, "rewrite", "rewrite")
    /\ UNCHANGED <<index, chain, stored, usedIds, authStatus, sessionId, hist,
                   pending, turnsStarted>>

\* Retrieve, but an empty search result is raised as an error.
Retrieve_FailOnEmpty(b) ==
    /\ UNCHANGED scripts
    /\ pc[b] = "retrieve"
    /\ \/ \E docs \in RetrieverResults(chain.k) :
             IF docs = <<>>
             THEN Raise(b, "retrieve", "none")
             ELSE /\ turn' = [turn EXCEPT ![b].query = turn[b].standalone,
                                          ![b].k = chain.k,
                                          ![b].chunks = docs,
                                          ![b].calls = Append(@, "retrieve")]
                  /\ pc' = [pc EXCEPT ![b] = "generate"]
                  /\ UNCHANGED outcome
       \/ Raise(b, "retrieve", "retrieve")
    /\ UNCHANGED <<index, chain, stored, usedIds, authStatus, sessionId, hist,
                   pending, turnsStarted>>

\* Retrieve, but the search is not cut at k: every chunk of the index may
\* come back.
Retrieve_Unbounded(b) ==
    /\ UNCHANGED scripts
    /\ pc[b] = "retrieve"
    /\ \/ \E docs \in RetrieverResults(Cardinality(index.chunks)) :
             /\ turn' = [turn EXCEPT ![b].query = turn[b].standalone,
                                     ![b].k = chain.k,
                                     ![b].chunks = docs,
                                     ![b].calls = Append(@, "retrieve")]
             /\ pc' = [pc EXCEPT ![b] = "generate"]
             /\ UNCHANGED outcome
       \/ Raise(b, "retrieve", "retrieve")
    /\ UNCHANGED <<index, chain, stored, usedIds, authStatus, sessionId, hist,
                   pending, turnsStarted>>

\* ... | retriever: the vector search on the rewriter's output, with the
\* search_kwargs the retriever was built with.
Retrieve(b) ==
    /\ UNCHANGED scripts
    /\ pc[b] = "retrieve"
    /\ \/ \E docs \in RetrieverResults(chain.k) :
             /\ turn' = [turn EXCEPT ![b].query = turn[b].standalone,
                                     ![b].k = chain.k,
                                     ![b].chunks = docs,
                                     ![b].calls = Append(@, "retrieve")]
             /\ pc' = [pc EXCEPT ![b] = "generate"]
             /\ UNCHANGED outcome
       \/ Raise(b, "retrieve", "retrieve")
    /\ UNCHANGED <<index, chain, stored, usedIds, authStatus, sessionId, hist,
                   pending, turnsStarted>>

\* Generate, but a fault of the model is caught and a fixed apology is
\* returned as the answer.
Generate_SwallowFault(b) ==
    /\ UNCHANGED scripts
    /\ pc[b] = "generate"
    /\ \E out \in {Grounded, Insufficient} : \E fault \in {"none", "generate"} :
             /\ turn' = [turn EXCEPT ![b].context = turn[b].chunks,
                                     ![b].prompt = QaPrompt(turn[b].chunks,
                                                            turn[b].history,
                                                            turn[b].input),
                                     ![b].answer = out,
                                     ![b].fault = fault,
                                     ![b].calls = Append(@, "generate")]
             /\ pc' = [pc EXCEPT ![b] = "exit_human"]
             /\ UNCHANGED outcome
    /\ UNCHANGED <<index, chain, stored, usedIds, authStatus, sessionId, hist,
                   pending, turnsStarted>>

\* Generate, but the history of the answer prompt is read again from the
\* chain's chat_memory when the prompt is formatted.
Generate_RereadsHistory(b) ==
    /\ UNCHANGED scripts
    /\ pc[b] = "generate"
    /\ \/ \E out \in {Grounded, Insufficient} :
             /\ turn' = [turn EXCEPT ![b].context = turn[b].chunks,
                                     ![b].prompt = QaPrompt(turn[b].chunks,
                                                            ChainMem,
                                                            turn[b].input),
                                     ![b].answer = out,
                                     ![b].calls = Append(@, "generate")]
             /\ pc' = [pc EXCEPT ![b] = "exit_human"]
             /\ UNCHANGED outcome
       \/ Raise(b, "generate", "generate")
    /\ UNCHANGED <<index, chain, stored, usedIds, authStatus, sessionId, hist,
                   pending, turnsStarted>>

\* qa_prompt | llm | StrOutputParser: the prompt is formatted from the
\* context, the history and the input; the answer is what the model returns.
Generate(b) ==
    /\ UNCHANGED scripts
    /\ pc[b] = "generate"
    /\ \/ \E out \in {Grounded, Insufficient} :
             /\ turn' = [turn EXCEPT ![b].context = turn[b].chunks,
                                     ![b].prompt = QaPrompt(turn[b].chunks,
                                                            turn[b].history,
                                                            turn[b].input),
                                     ![b].answer = out,
                                     ![b].calls = Append(@, "generate")]
             /\ pc' = [pc EXCEPT ![b] = "exit_human"]
             /\ UNCHANGED outcome
       \/ Raise(b, "generate", "generate")
    /\ UNCHANGED <<index, chain, stored, usedIds, authStatus, sessionId, hist,
                   pending, turnsStarted>>

\* RunnableWithMessageHistory on success: add_messages([input, output]) on
\* the chain's chat_memory, one append after the other.
ExitHistoryHuman(b) ==
    /\ UNCHANGED scripts
    /\ pc[b] = "exit_human"
    /\ ChainAppend(HumanMessage(turn[b].input))
    /\ pc' = [pc EXCEPT ![b] = "exit_ai"]
    /\ UNCHANGED <<index, stored, usedIds, authStatus, sessionId, pending,
                   turn, outcome, turnsStarted>>

ExitHistoryAI(b) ==
    /\ UNCHANGED scripts
    /\ pc[b] = "exit_ai"
    /\ ChainAppend(AIMessage(turn[b].answer))
    /\ pc' = [pc EXCEPT ![b] = "add_ai"]
    /\ UNCHANGED <<index, stored, usedIds, authStatus, sessionId, pending,
                   turn, outcome, turnsStarted>>

\* AddAiMessage, but the answer is written over the last message of the
\* list instead of being appended.
AddAiMessage_Overwrite(b) ==
    /\ UNCHANGED scripts
    /\ pc[b] = "add_ai"
    /\ hist' = [hist EXCEPT ![b][sessionId[b]] =
                   IF @ = <<>> THEN <<AIMessage(turn[b].answer)>>
                   ELSE [@ EXCEPT ![Len(@)] = AIMessage(turn[b].answer)]]
    /\ pc' = [pc EXCEPT ![b] = "save"]
    /\ UNCHANGED <<index, chain, stored, usedIds, authStatus, sessionId,
                   pending, turn, outcome, turnsStarted>>

\* app.py 127: chat_history.add_ai_message(llm_response).
AddAiMessage(b) ==
    /\ UNCHANGED scripts
    /\ pc[b] = "add_ai"
    /\ hist' = [hist EXCEPT ![b][sessionId[b]] = Append(@, AIMessage(turn[b].answer))]
    /\ pc' = [pc EXCEPT ![b] = "save"]
    /\ UNCHANGED <<index, chain, stored, usedIds, authStatus, sessionId,
                   pending, turn, outcome, turnsStarted>>

\* app.py 132: save_chat_history(username, session_id, chat_history.messages).
SaveHistory(b) ==
    /\ UNCHANGED scripts
    /\ pc[b] = "save"
    /\ stored' = [stored EXCEPT ![sessionId[b]] = hist[b][sessionId[b]]]
    /\ pc' = [pc EXCEPT ![b] = "idle"]
    /\ outcome' = [outcome EXCEPT ![b] = "committed"]
    /\ turn' = [turn EXCEPT ![b] = Discard(@)]
    /\ UNCHANGED <<index, chain, usedIds, authStatus, sessionId, hist,
                   pending, turnsStarted>>

Next ==
    \/ RunIngest
    \/ \E b \in Solo :
          \/ \E ok \in BOOLEAN : Login(b, ok)
          \/ Logout(b)
          \/ NewChat(b)
          \/ \E s \in SessionIds : SelectSession(b, s)
          \/ \E text \in UserInputs : Submit(b, text)
          \/ StopScript(b)
          \/ SessionInit(b)
          \/ LoadChain(b)
          \/ HandleInput(b)
          \/ EnterHistory(b)
          \/ Rewrite(b)
          \/ Retrieve(b)
          \/ Generate(b)
          \/ ExitHistoryHuman(b)
          \/ ExitHistoryAI(b)
          \/ AddAiMessage(b)
          \/ SaveHistory(b)

Spec == Init /\ [][Next]_vars


\* ------------------------------------------- two browsers, one conversation
\* Two browser sessions of the user on a running server, both showing the
\* saved conversation s1; the chain is cached and the index is populated.
InitConc ==
    /\ ScriptsIdle
    /\ index = [exists |-> TRUE, chunks |-> Chunks]
    /\ chain = [built |-> TRUE, alias |-> NoAlias, own |-> <<>>, k |-> K]
    /\ stored = [s \in SessionIds |-> IF s = "s1" THEN SavedPair ELSE <<>>]
    /\ usedIds = SessionIds
    /\ authStatus = [b \in Browsers |-> "true"]
    /\ sessionId = [b \in Browsers |-> "s1"]
    /\ hist = [b \in Browsers |-> [s \in SessionIds |-> IF s = "s1" THEN SavedPair ELSE <<>>]]
    /\ pc = [b \in Browsers |-> "idle"]
    /\ pending = [b \in Browsers |-> NoInput]
    /\ turn = [b \in Browsers |-> NoTurn]
    /\ outcome = [b \in Browsers |-> "shown"]
    /\ turnsStarted = 0

NextConc ==
    \E b \in Browsers :
        \/ \E text \in UserInputs : Submit(b, text)
        \/ SessionInit(b)
        \/ LoadChain(b)
        \/ HandleInput(b)
        \/ EnterHistory(b)
        \/ Rewrite(b)
        \/ Retrieve(b)
        \/ Generate(b)
        \/ ExitHistoryHuman(b)
        \/ ExitHistoryAI(b)
        \/ AddAiMessage(b)
        \/ SaveHistory(b)

SpecConc == InitConc /\ [][NextConc]_vars

\* ------------------------------------------- an index larger than one search
\* One browser session on a running server whose index holds more chunks
\* than k; the chain is cached; the saved conversation s1 is shown.
InitRetr ==
    /\ ScriptsIdle
    /\ index = [exists |-> TRUE, chunks |-> BigChunks]
    /\ chain = [built |-> TRUE, alias |-> NoAlias, own |-> <<>>, k |-> K]
    /\ stored = [s \in SessionIds |-> IF s = "s1" THEN SavedPair ELSE <<>>]
    /\ usedIds = SessionIds
    /\ authStatus = [b \in Browsers |-> IF b \in Solo THEN "true" ELSE "none"]
    /\ sessionId = [b \in Browsers |-> IF b \in Solo THEN "s1" ELSE NoSid]
    /\ hist = [b \in Browsers |-> [s \in SessionIds |->
                  IF b \in Solo /\ s = "s1" THEN SavedPair ELSE <<>>]]
    /\ pc = [b \in Browsers |-> "idle"]
    /\ pending = [b \in Browsers |-> NoInput]
    /\ turn = [b \in Browsers |-> NoTurn]
    /\ outcome = [b \in Browsers |-> IF b \in Solo THEN "shown" ELSE "none"]
    /\ turnsStarted = 0

NextRetr ==
    \E b \in Solo :
        \/ \E text \in UserInputs : Submit(b, text)
        \/ SessionInit(b)
        \/ LoadChain(b)
        \/ HandleInput(b)
        \/ EnterHistory(b)
        \/ Rewrite(b)
        \/ Retrieve(b)
        \/ Generate(b)
        \/ ExitHistoryHuman(b)
        \/ ExitHistoryAI(b)
        \/ AddAiMessage(b)
        \/ SaveHistory(b)

SpecRetr == InitRetr /\ [][NextRetr]_vars

\* --------------------------------------- a turn of another browser in flight
\* As InitConc, but the second browser session has submitted q and its
\* chain call has produced the answer: the wrapper is about to append the
\* pair to the chain's list.
InitSnap ==
    /\ ScriptsIdle
    /\ index = [exists |-> TRUE, chunks |-> Chunks]
    /\ chain = [built |-> TRUE, alias |-> NoAlias, own |-> <<>>, k |-> K]
    /\ stored = [s \in SessionIds |-> IF s = "s1" THEN SavedPair ELSE <<>>]
    /\ usedIds = SessionIds
    /\ authStatus = [b \in Browsers |-> "true"]
    /\ sessionId = [b \in Browsers |-> "s1"]
    /\ hist = [b \in Browsers |-> [s \in SessionIds |->
                  IF s # "s1" THEN <<>>
                  ELSE IF b \in Solo THEN SavedPair
                  ELSE Append(SavedPair, HumanMessage(<<"q">>))]]
    /\ pc = [b \in Browsers |-> IF b \in Solo THEN "idle" ELSE "exit_human"]
    /\ pending = [b \in Browsers |-> NoInput]
    /\ turn = [b \in Browsers |->
                  IF b \in Solo THEN NoTurn
                  ELSE [NoTurn EXCEPT
                          !.input = <<"q">>, !.sid = "s1", !.memBefore = SavedPair,
                          !.standalone = Rewritten, !.query = Rewritten,
                          !.k = K, !.chunks = <<"c1">>, !.context = <<"c1">>,
                          !.qprompt = ContextualizePrompt(<<>>, <<"q">>),
                          !.prompt = QaPrompt(<<"c1">>, <<>>, <<"q">>),
                          !.answer = Grounded,
                          !.calls = <<"rewrite", "retrieve", "generate">>]]
    /\ outcome = [b \in Browsers |-> IF b \in Solo THEN "shown" ELSE "running"]
    /\ turnsStarted = 1

SpecSnap == InitSnap /\ [][NextConc]_vars

\* ------------------------------------------------------------ properties
InFlight(b) == pc[b] \in {"enter", "rewrite", "retrieve", "generate",
                          "exit_human", "exit_ai", "add_ai", "save"}

IsPrefix(p, q) == Len(p) <= Len(q) /\ SubSeq(q, 1, Len(p)) = p

TurnPair(b) == <<HumanMessage(turn[b].input), AIMessage(turn[b].answer)>>

\* C1: a turn that completes successfully leaves the current session's
\* memory longer by exactly two turns, the user turn then the assistant turn.
C1_GrowsByExactlyTwo ==
    \A b \in Browsers :
        outcome[b] = "committed" =>
            Memory(b, turn[b].sid) = turn[b].memBefore \o TurnPair(b)

\* C2: a turn that fails leaves the session's memory as it was before the
\* turn started.
C2_FailedTurnLeavesMemory ==
    \A b \in Browsers :
        outcome[b] = "failed" => Memory(b, turn[b].sid) = turn[b].memBefore

PairsOnly(h) ==
    /\ Len(h) % 2 = 0
    /\ \A i \in 1..Len(h) : h[i].role = (IF i % 2 = 1 THEN USER ELSE ASSISTANT)

\* C3: in every state every session's memory is a sequence of
\* (USER, ASSISTANT) pairs; no user turn is without its answer.
C3_NoDanglingUserTurn ==
    \A b \in Browsers : \A s \in SessionIds : PairsOnly(Memory(b, s))

\* The history a turn was given is a prefix of its own session's memory.
C4_HistoryIsOwn ==
    \A b \in Browsers :
        pc[b] \in {"rewrite", "retrieve", "generate"} =>
            IsPrefix(turn[b].history, Memory(b, turn[b].sid))

\* A step of a turn leaves the memory of the sessions that are not current.
C4_OthersUnchanged ==
    \A b \in Browsers :
        InFlight(b) /\ pc'[b] # pc[b] =>
            \A s \in SessionIds \ {sessionId[b]} : Memory(b, s)' = Memory(b, s)

\* C4: a turn of session A reads only A's turns as history and appends only
\* to A's memory; the memory of every other session is unchanged by it.
C4_SessionsIsolated == []C4_HistoryIsOwn /\ [][C4_OthersUnchanged]_vars


Committing(b) == pc[b] \in {"exit_human", "exit_ai", "add_ai", "save"}

\* C5: two concurrent turns on one session id are serialized: at most one
\* of them is committing at a time, and when both have succeeded the session
\* holds the two pairs one after the other, in either order.
C5_TurnsSerialized ==
    \A a, b \in Browsers :
        a # b /\ sessionId[a] = sessionId[b] =>
            /\ ~(Committing(a) /\ Committing(b))
            /\ (outcome[a] = "committed" /\ outcome[b] = "committed") =>
                  LET h == stored[sessionId[a]]
                      last4 == SubSeq(h, Len(h) - 3, Len(h))
                  IN /\ Len(h) >= 4
                     /\ last4 \in {TurnPair(a) \o TurnPair(b), TurnPair(b) \o TurnPair(a)}

StageOrder == <<"rewrite", "retrieve", "generate">>

\* C6: the stages of a turn run in the order rewrite, retrieve, generate,
\* commit; the retriever gets the rewriter's output, the generator gets the
\* retrieved chunks, and memory is appended only after the generator returned.
C6_StagesInOrder ==
    \A b \in Browsers :
        /\ IsPrefix(turn[b].calls, StageOrder)
        /\ turn[b].query # NoInput => turn[b].query = turn[b].standalone
        /\ turn[b].context # NoChunks => turn[b].context = turn[b].chunks
        /\ pc[b] \in {"enter", "rewrite", "retrieve", "generate"} =>
              Memory(b, turn[b].sid) = turn[b].memBefore

\* C7: with an empty history the query handed to the retriever is the user
\* input unchanged, whatever the language model returns.
C7_EmptyHistoryKeepsQuery ==
    \A b \in Browsers :
        (turn[b].query # NoInput /\ turn[b].memBefore = <<>> /\ turn[b].history = <<>>)
            => turn[b].query = turn[b].input

\* C8: an input that is empty after trimming never enters a turn: no stage
\* is called for it and the memory is unchanged.
C8_BlankInputRejected ==
    \A b \in Browsers :
        turn[b].input # NoInput => Trim(turn[b].input) # <<>>

\* C9: when the retriever returned no chunk, the answer is the fixed
\* insufficiency message.
C9_NoChunksInsufficient ==
    \A b \in Browsers :
        (turn[b].context = <<>> /\ turn[b].answer # NoInput)
            => turn[b].answer = Insufficient

\* C10: a retrieval that returns no chunk is not a failure: the turn goes on
\* to generation, only a fault of a service fails a turn, and once the
\* answer is back both turns are in memory.
C10_EmptyRetrievalProceeds ==
    \A b \in Browsers :
        /\ turn[b].chunks = <<>> =>
              /\ pc[b] \in {"generate", "exit_human", "exit_ai", "add_ai", "save"}
              /\ outcome[b] = "running"
        /\ outcome[b] = "failed" => turn[b].fault = turn[b].error
        /\ (turn[b].chunks = <<>> /\ pc[b] = "save") =>
              LET m == Memory(b, turn[b].sid)
                  n == Len(turn[b].memBefore)
              IN /\ Len(m) >= n + 2
                 /\ m[n + 1] = HumanMessage(turn[b].input)
                 /\ m[Len(m)] = AIMessage(turn[b].answer)

\* A turn whose retrieval returned no chunk has its answer and both turns
\* appended, and is about to be saved.
C10_Witness ==
    \E b \in Browsers :
        /\ turn[b].chunks = <<>>
        /\ pc[b] = "save"
        /\ turn[b].calls = StageOrder

\* C11: the messages the generator gets are the system message, then the
\* session's memory as it was before the turn, then one human message that
\* holds the user input; the input is not also inside the history part.
C11_PromptIsMemoryThenInput ==
    \A b \in Browsers :
        turn[b].prompt # NoPrompt =>
            LET p == turn[b].prompt IN
                /\ p[1].role = "system"
                /\ SubSeq(p, 2, Len(p) - 1) = turn[b].memBefore
                /\ p[Len(p)] = HumanMessage(turn[b].input)

IsChunkText(t) == t \in BigChunks

\* C12: the chunks appear in the generator's context in the order the
\* retriever returned them; none is dropped, duplicated or moved.
C12_ContextKeepsOrder ==
    \A b \in Browsers :
        turn[b].prompt # NoPrompt =>
            /\ turn[b].context = turn[b].chunks
            /\ SelectSeq(turn[b].prompt[1].content, IsChunkText) = turn[b].chunks

\* The generator was given a context of three or more chunks.
C12_Witness ==
    \E b \in Browsers :
        /\ turn[b].prompt # NoPrompt
        /\ Len(turn[b].chunks) >= 3
        /\ pc[b] = "exit_human"

\* C13: the context string the generator gets is exactly the chunk texts in
\* retrieved order, joined by a blank line ("\n\n").
C13_ContextJoinedByBlankLine ==
    \A b \in Browsers :
        turn[b].prompt # NoPrompt =>
            turn[b].prompt[1].content =
                QaSystemPrompt \o
                Join([i \in 1..Len(turn[b].chunks) |-> PageContent(turn[b].chunks[i])],
                     "\n\n")

\* C14: the retriever's k is fixed when the chain is constructed, is at least
\* 1 (5 by default), is the k of every search of every turn, and the
\* generator never gets more than k chunks.
C14_RetrieverKFixed ==
    /\ K >= 1
    /\ chain.built => chain.k = K
    /\ \A b \in Browsers :
          /\ turn[b].chunks # NoChunks => turn[b].k = K
          /\ turn[b].context # NoChunks => Len(turn[b].context) <= K

\* From an index of more than k chunks the generator was given exactly k.
C14_Witness ==
    \E b \in Browsers :
        /\ Cardinality(index.chunks) > K
        /\ turn[b].context # NoChunks
        /\ Len(turn[b].context) = K
        /\ turn[b].k = K

\* The run has the submitted input in hand and the answer is not back yet.
BeforeAnswer(b) ==
    \/ pc[b] = "input" /\ pending[b] # NoInput /\ Truthy(pending[b])
    \/ pc[b] \in {"enter", "rewrite", "retrieve", "generate"}

\* A step of a turn that is not past generation leaves the session's memory.
C15_NoWriteStep ==
    \A b \in Browsers :
        BeforeAnswer(b) =>
            Memory(b, sessionId[b])' = Memory(b, sessionId[b])

\* C15: from the moment a turn is received until generation has returned no
\* step writes the session's memory; the commit is the only write of a turn.
C15_NoWriteBeforeAnswer == [][C15_NoWriteStep]_vars

StageIndex(stage) == CHOOSE i \in 1..Len(StageOrder) : StageOrder[i] = stage

\* The error kinds the specification names for the stages.
NamedKind(stage) ==
    IF stage = "retrieve" THEN "RetrievalError" ELSE "GenerationError"

\* The stages after the failing one were not called, and no answer exists.
LaterStagesSkipped(b) ==
    /\ pc[b] = "idle"
    /\ turn[b].calls = SubSeq(StageOrder, 1, StageIndex(turn[b].error))
    /\ turn[b].answer = NoInput

CallsOf(b, stage) ==
    Cardinality({i \in 1..Len(turn[b].calls) : turn[b].calls[i] = stage})

\* C17: within one turn the rewriter, the retriever and the generator are
\* each called at most once, and the call that failed is the last call of
\* its turn: nothing is retried.
C17_NoRetry ==
    \A b \in Browsers :
        /\ \A i \in 1..Len(StageOrder) : CallsOf(b, StageOrder[i]) <= 1
        /\ outcome[b] = "failed" =>
              /\ turn[b].calls # <<>>
              /\ turn[b].calls[Len(turn[b].calls)] = turn[b].error
              /\ CallsOf(b, turn[b].error) = 1

\* The rewriter failed on its only call and nothing else was called.
C17_Witness ==
    \E b \in Browsers :
        /\ outcome[b] = "failed"
        /\ turn[b].fault = "rewrite"
        /\ turn[b].calls = <<"rewrite">>

\* C18: constructing the chain while the index is missing fails at
\* construction and leaves no chain; a chain exists only over an existing
\* index, a turn is in flight only with a chain, and the run that met the
\* missing index had no turn and called no stage.
C18_NoChainWithoutIndex ==
    /\ chain.built => index.exists
    /\ \A b \in Browsers :
          /\ InFlight(b) => chain.built
          /\ turn[b].calls # <<>> => index.exists
          /\ outcome[b] = "error_chain" =>
                /\ pc[b] = "idle"
                /\ turn[b] = NoTurn
                /\ Memory(b, sessionId[b]) = LoadChatHistory(sessionId[b])

\* A page run ended at the construction of the chain: the index is missing
\* and nothing is cached.
C18_Witness ==
    \E b \in Browsers :
        /\ outcome[b] = "error_chain"
        /\ ~index.exists
        /\ ~chain.built

\* C19: an index that passes the existence check holds at least one vector;
\* no run of the ingestion script leaves an index that exists and is empty.
C19_ExistingIndexPopulated ==
    index.exists => index.chunks # {}

\* C20: a turn whose run was stopped before its answer was produced leaves
\* none of its turns in the session's memory.
C20_AbandonedTurnLeavesNothing ==
    \A b \in Browsers :
        (outcome[b] = "stopped_turn" /\ turn[b].answer = NoInput) =>
            Memory(b, turn[b].sid) = turn[b].memBefore

\* In one step the memory of every session keeps what it held, as a prefix;
\* a session id that becomes current and was never used starts empty.
C21_AppendStep ==
    \A b \in Browsers :
        /\ \A s \in SessionIds : IsPrefix(Memory(b, s), Memory(b, s)')
        /\ (sessionId'[b] # sessionId[b] /\ sessionId'[b] \notin usedIds) =>
              hist'[b][sessionId'[b]] = <<>>

\* C21: across turns, page reruns, history loads and session switches the
\* turn sequence of every session only grows by appending: the sequence
\* before a step is a prefix of the sequence after it; a reset is only a
\* new session under a new id.
C21_MemoryAppendOnly == [][C21_AppendStep]_vars

\* A conversation loaded from the store has grown by a committed turn.
C21_Witness ==
    \E b \in Browsers :
        /\ outcome[b] = "committed"
        /\ turn[b].memBefore = SavedPair
        /\ Len(Memory(b, turn[b].sid)) > Len(SavedPair)

\* The page run of b has bound and loaded the history of its current session.
Shown(b) ==
    \/ pc[b] \in {"chain", "input"}
    \/ InFlight(b)
    \/ pc[b] = "idle" /\ InputShown(b)

\* The store changes only in the last step of a successful turn, and the
\* entry written is the whole in-process sequence of the session.
C24_WriteStep ==
    stored' # stored =>
        \E b \in Browsers :
            /\ pc[b] = "save"
            /\ outcome'[b] = "committed"
            /\ turn[b].answer # NoInput
            /\ stored' = [stored EXCEPT ![sessionId[b]] = Memory(b, sessionId[b])]

\* The stored sequence of a session is a prefix of the memory shown for it.
C24_StoredIsPrefix ==
    \A b \in Browsers :
        Shown(b) => IsPrefix(stored[sessionId[b]], Memory(b, sessionId[b]))

\* C24: the store entry of a session is written only at the end of a
\* successful turn, with the session's whole in-process sequence; a failed
\* turn writes nothing; so the stored sequence is always a prefix of the
\* in-process memory shown for that session.
C24_StoreFollowsMemory == []C24_StoredIsPrefix /\ [][C24_WriteStep]_vars

\* The step of a page run that binds the history of the current session:
\* an empty history becomes the stored one, a non-empty one is left alone.
C25_LoadStep ==
    \A b \in Browsers :
        (pc[b] = "init" /\ pc'[b] = "chain") =>
            LET s == sessionId'[b] IN
                IF hist[b][s] = <<>>
                THEN hist'[b][s] = LoadChatHistory(s)
                ELSE hist'[b][s] = hist[b][s]

\* C25: a page run loads the stored history of the current session only
\* when the in-process history is empty; a non-empty in-process history is
\* never overwritten by a load, so turns appended in-process are not lost to
\* an older stored sequence.
C25_LoadOnlyWhenEmpty == [][C25_LoadStep]_vars

\* A page run has bound a history that is ahead of what the store holds.
C25_Witness ==
    \E b \in Browsers :
        /\ pc[b] = "chain"
        /\ Len(Memory(b, sessionId[b])) > Len(stored[sessionId[b]])

\* A sidebar button of b changed its current session id: New Chat when the
\* new id was never used, a past conversation's button otherwise.
C26_SwitchStep ==
    \A b \in Browsers :
        (pc[b] = "idle" /\ sessionId'[b] # sessionId[b]) =>
            /\ hist' = hist
            /\ stored' = stored
            /\ sessionId'[b] \notin usedIds =>
                  /\ hist'[b][sessionId'[b]] = <<>>
                  /\ stored[sessionId'[b]] = <<>>
            /\ sessionId'[b] \in usedIds => sessionId'[b] \in SavedSessions
            /\ \A c \in Browsers \ {b} : sessionId'[c] = sessionId[c]

\* C26: New Chat makes a freshly generated id current, whose in-process
\* history is empty, and leaves the in-process and the stored history of
\* every existing session as they were; selecting a past conversation
\* changes only which session id is current.
C26_SwitchKeepsHistories == [][C26_SwitchStep]_vars

\* New Chat was pressed in a conversation that holds a committed turn.
C26_Witness ==
    \E b \in Browsers : \E s \in SessionIds :
        /\ pc[b] = "init"
        /\ sessionId[b] \in SessionIds \ {s}
        /\ Memory(b, sessionId[b]) = <<>>
        /\ Len(Memory(b, s)) >= 2
        /\ stored[s] = Memory(b, s)

\* C27: the chat body (history load and save, chain construction, turns)
\* runs only while authentication_status is true; a wrong or missing
\* credential leaves the page run outside it, with no input and no turn.
C27_BodyOnlyWhenAuthenticated ==
    \A b \in Browsers :
        /\ pc[b] # "idle" => authStatus[b] = "true"
        /\ authStatus[b] # "true" =>
              /\ outcome[b] = "none"
              /\ pending[b] = NoInput
              /\ turn[b] = NoTurn

\* A login was refused while the store holds a conversation.
C27_Witness ==
    \E b \in Browsers :
        /\ authStatus[b] = "false"
        /\ pc[b] = "idle"
        /\ SavedSessions # {}

\* The messages of a prompt between its system message and its final human
\* message: the chat_history placeholder.
HistoryPart(p) == SubSeq(p, 2, Len(p) - 1)

AppIdle ==
    /\ index = [exists |-> FALSE, chunks |-> {}]
    /\ stored = [s \in SessionIds |-> <<>>]
    /\ usedIds = {}
    /\ chain = [built |-> FALSE, alias |-> NoAlias, own |-> <<>>, k |-> 0]
    /\ authStatus = [b \in Browsers |-> "none"]
    /\ sessionId = [b \in Browsers |-> NoSid]
    /\ hist = [b \in Browsers |-> [s \in SessionIds |-> <<>>]]
    /\ pc = [b \in Browsers |-> "idle"]
    /\ pending = [b \in Browsers |-> NoInput]
    /\ turn = [b \in Browsers |-> NoTurn]
    /\ outcome = [b \in Browsers |-> "none"]
    /\ turnsStarted = 0

\* ------------------------------------------- filter preamble (backup page)
\* The five selectboxes, in the order the page tests them.
FilterNames == <<"campaign_objective", "target_market", "age_groups",
                 "industry", "ad_format">>
All == "All"
\* Every selectbox offers "All" and the values of its facet.
FilterValues == {All, "v"}
OutputLanguages == {"English", "Malay", "Mandarin"}
\* What st.chat_input can return to the walrus test as a truthy str.
Questions == {<<"q">>, <<" ", "q", " ">>}

\* The f-string of each context_parts.append: text, value, text.
ClauseOpen ==
    [f \in Range(FilterNames) |->
        CASE f = "campaign_objective" -> "for the '"
          [] f = "target_market" -> "targeting the '"
          [] f = "age_groups" -> "focusing on the '"
          [] f = "industry" -> "in the '"
          [] f = "ad_format" -> "using the '"]
ClauseClose ==
    [f \in Range(FilterNames) |->
        CASE f = "campaign_objective" -> "' objective"
          [] f = "target_market" -> "' market"
          [] f = "age_groups" -> "' age group"
          [] f = "industry" -> "' industry"
          [] f = "ad_format" -> "' format"]
Clause(f, v) == <<ClauseOpen[f], v, ClauseClose[f]>>

\* The five `if <filter> != "All": context_parts.append(...)` statements,
\* run in the order given by names.
RECURSIVE AppendParts(_, _, _)
AppendParts(parts, names, sel) ==
    IF names = <<>> THEN parts
    ELSE AppendParts(IF sel[Head(names)] # All
                     THEN Append(parts, Clause(Head(names), sel[Head(names)]))
                     ELSE parts,
                     Tail(names), sel)

\* The same statements with the ad_format test moved to the front.
ContextParts_FormatFirst(sel) ==
    AppendParts(<<>>, <<"ad_format", "campaign_objective", "target_market",
                        "age_groups", "industry">>, sel)

\* context_parts after the five tests in the order of the page.
ContextParts(sel) == AppendParts(<<>>, FilterNames, sel)

ContextPreamble(parts) ==
    IF parts # <<>>
    THEN <<"Analyze the following query ">> \o Join(parts, " ") \o <<". ">>
    ELSE <<>>

FinalInput(preamble, lang, question) ==
    preamble \o <<"Answer in ", lang, ". User question: ">> \o question

NoSelection == [f \in Range(FilterNames) |-> All]

\* The page is shown: the widgets hold their defaults, nothing was typed.
InitCompose ==
    /\ AppIdle
    /\ ingest = NoScript
    /\ fetch = NoScript
    /\ compose = [pc |-> "widgets", sel |-> NoSelection, lang |-> "English",
                  question |-> NoInput, parts |-> <<>>, preamble |-> <<>>,
                  final |-> NoInput, passed |-> NoInput]

\* The user sets the selectboxes and sends a chat input; the script reruns
\* and the walrus test passes.
ChooseInput ==
    /\ compose.pc \in {"widgets", "passed"}
    /\ \E sel \in [Range(FilterNames) -> FilterValues],
          lang \in OutputLanguages, q \in Questions :
          compose' = [pc |-> "input", sel |-> sel, lang |-> lang,
                      question |-> q, parts |-> <<>>, preamble |-> <<>>,
                      final |-> NoInput, passed |-> NoInput]
    /\ UNCHANGED <<app, ingest, fetch>>

\* context_parts, context_preamble and final_input of the submitted input.
ComposeInput ==
    /\ compose.pc = "input"
    /\ LET parts == ContextParts(compose.sel)
           preamble == ContextPreamble(parts)
       IN compose' = [compose EXCEPT
              !.pc = "composed", !.parts = parts, !.preamble = preamble,
              !.final = FinalInput(preamble, compose.lang, compose.question)]
    /\ UNCHANGED <<app, ingest, fetch>>

\* rag_chain.run(final_input).
PassToChain ==
    /\ compose.pc = "composed"
    /\ compose' = [compose EXCEPT !.pc = "passed", !.passed = compose.final]
    /\ UNCHANGED <<app, ingest, fetch>>

NextCompose ==
    \/ ChooseInput
    \/ ComposeInput
    \/ PassToChain

SpecCompose == InitCompose /\ [][NextCompose]_vars

\* Positions of a token in a text.
Positions(text, tok) == {i \in 1..Len(text) : text[i] = tok}

\* The clause of filter f stands in the preamble: its opening text, then
\* the selected value, then its closing text.
ClausePresent(f) ==
    \E i \in 1..(Len(compose.preamble) - 2) :
        /\ compose.preamble[i] = ClauseOpen[f]
        /\ compose.preamble[i + 1] = compose.sel[f]
        /\ compose.preamble[i + 2] = ClauseClose[f]

\* C22: the clause of a filter is in the preamble exactly when the filter's
\* value is not "All", and at most once; the clauses present stand in the
\* order objective, market, age group, industry, ad format; with every
\* filter at "All" the preamble is empty; and the string passed to the
\* chain ends with the user's question as typed.
C22_PreambleComposition ==
    compose.pc \in {"composed", "passed"} =>
        /\ \A f \in Range(FilterNames) :
              /\ ClausePresent(f) <=> compose.sel[f] # All
              /\ Cardinality(Positions(compose.preamble, ClauseOpen[f])) <= 1
        /\ \A i, j \in 1..Len(FilterNames) :
              (i < j /\ ClausePresent(FilterNames[i])
                     /\ ClausePresent(FilterNames[j])) =>
                 \A p \in Positions(compose.preamble, ClauseOpen[FilterNames[i]]),
                    q \in Positions(compose.preamble, ClauseOpen[FilterNames[j]]) :
                    p < q
        /\ compose.sel = NoSelection => compose.preamble = <<>>
        /\ compose.sel # NoSelection => compose.preamble # <<>>
        /\ LET n == Len(compose.final)
               m == Len(compose.question)
           IN /\ m <= n
              /\ SubSeq(compose.final, n - m + 1, n) = compose.question
        /\ compose.pc = "passed" => compose.passed = compose.final

\* Objective and ad format are set, the other filters are not, the question
\* has surrounding whitespace, and the input has been passed to the chain.
C22_Witness ==
    /\ compose.pc = "passed"
    /\ compose.sel["campaign_objective"] # All
    /\ compose.sel["ad_format"] # All
    /\ compose.sel["industry"] = All
    /\ compose.question = <<" ", "q", " ">>
    /\ Len(compose.parts) = 2

\* ------------------------------------------------ ingest_data_script, in steps
\* Sizes of ads_data that put the last batch at every place it can be:
\* no vector, one, a full batch, a full batch and one, two and one.
AdCounts == {0, 1, BatchSize, BatchSize + 1, MaxAds}
\* Ads whose create_text_chunk or embed_query may raise, and the batches
\* (by number) whose index.upsert may raise.
FaultyAds == {1, BatchSize, BatchSize + 1}
FaultyBatches == {1, 2, 3}

Min(a, b) == IF a < b THEN a ELSE b

\* The script is started.  Whether the input file exists, how many ads it
\* holds and which calls to the embedding service and to the index fail
\* are fixed by the world the run meets.
InitIngest ==
    /\ AppIdle
    /\ compose = NoScript
    /\ fetch = NoScript
    /\ \E file \in {"missing", "present"}, n \in AdCounts,
          badAds \in SUBSET FaultyAds, badBatches \in SUBSET FaultyBatches :
          /\ file = "missing" => n = 0 /\ badAds = {} /\ badBatches = {}
          /\ ingest = [pc |-> "load", file |-> file, n |-> n,
                       badAds |-> badAds \cap 1..n, badBatches |-> badBatches,
                       i |-> 0, vectors_to_upsert |-> <<>>, skipped |-> {},
                       at |-> 0, submitted |-> <<>>]

\* open(INPUT_FILE) / json.load, then the index is connected or created.
LoadAds ==
    /\ ingest.pc = "load"
    /\ ingest' = [ingest EXCEPT
                    !.pc = IF ingest.file = "missing" THEN "done" ELSE "prepare"]
    /\ UNCHANGED <<app, compose, fetch>>

\* One pass of `for i, ad in enumerate(ads_data)`: the vector of the ad is
\* appended, or the ad's exception is caught and the loop continues.
PrepareAd ==
    /\ ingest.pc = "prepare"
    /\ ingest.i < ingest.n
    /\ LET ad == ingest.i + 1
       IN ingest' = IF ad \in ingest.badAds
                    THEN [ingest EXCEPT !.i = ad, !.skipped = @ \cup {ad}]
                    ELSE [ingest EXCEPT !.i = ad,
                              !.vectors_to_upsert = Append(@, ad)]
    /\ UNCHANGED <<app, compose, fetch>>

\* The loop is exhausted: `if vectors_to_upsert:`.
BeginUpsert ==
    /\ ingest.pc = "prepare"
    /\ ingest.i = ingest.n
    /\ ingest' = [ingest EXCEPT
                    !.pc = IF ingest.vectors_to_upsert # <<>> THEN "upsert"
                           ELSE "done",
                    !.at = 0]
    /\ UNCHANGED <<app, compose, fetch>>

\* One pass of `for i in range(0, len(vectors_to_upsert), batch_size)`
\* that stops at the first batch whose upsert raises.
UpsertBatch_AbortOnFailure ==
    /\ ingest.pc = "upsert"
    /\ ingest.at < Len(ingest.vectors_to_upsert)
    /\ LET batch == SubSeq(ingest.vectors_to_upsert, ingest.at + 1,
                           Min(ingest.at + BatchSize,
                               Len(ingest.vectors_to_upsert)))
           number == (ingest.at \div BatchSize) + 1
           ok == number \notin ingest.badBatches
       IN ingest' = [ingest EXCEPT
                       !.submitted = Append(@, [batch |-> batch, ok |-> ok]),
                       !.at = IF ok THEN @ + BatchSize
                              ELSE Len(ingest.vectors_to_upsert)]
    /\ UNCHANGED <<app, compose, fetch>>

\* One pass of `for i in range(0, len(vectors_to_upsert), batch_size)`:
\* the slice [i:i + batch_size] is upserted; an exception of the upsert is
\* caught inside the pass.
UpsertBatch ==
    /\ ingest.pc = "upsert"
    /\ ingest.at < Len(ingest.vectors_to_upsert)
    /\ LET batch == SubSeq(ingest.vectors_to_upsert, ingest.at + 1,
                           Min(ingest.at + BatchSize,
                               Len(ingest.vectors_to_upsert)))
           number == (ingest.at \div BatchSize) + 1
       IN ingest' = [ingest EXCEPT
                       !.submitted = Append(@, [batch |-> batch,
                                                ok |-> number \notin ingest.badBatches]),
                       !.at = @ + BatchSize]
    /\ UNCHANGED <<app, compose, fetch>>

\* The range is exhausted: describe_index_stats, whose failure is caught.
FinishIngest ==
    /\ ingest.pc = "upsert"
    /\ ingest.at >= Len(ingest.vectors_to_upsert)
    /\ ingest' = [ingest EXCEPT !.pc = "done"]
    /\ UNCHANGED <<app, compose, fetch>>

NextIngest ==
    \/ LoadAds
    \/ PrepareAd
    \/ BeginUpsert
    \/ UpsertBatch
    \/ FinishIngest

SpecIngest == InitIngest /\ [][NextIngest]_vars

\* The vectors of the batches submitted so far, in submission order.
RECURSIVE Submitted(_)
Submitted(batches) ==
    IF batches = <<>> THEN <<>>
    ELSE Submitted(SubSeq(batches, 1, Len(batches) - 1))
            \o batches[Len(batches)].batch

\* The ads of 1..n outside bad, in file order.
IsGood(ad, bad) == ad \notin bad
GoodAds(n, bad) == SelectSeq([a \in 1..n |-> a], LAMBDA a : IsGood(a, bad))

\* C29: when ingest_data_script has run to its end on an input file, the
\* vectors prepared are those of the ads whose chunking and embedding did
\* not fail, in file order; each of them was submitted in exactly one batch;
\* the batches taken together are the prepared vectors in preparation order;
\* no batch holds more than 100 vectors; and that holds whichever batches
\* failed.  While the upsert loop runs, what was submitted is the first
\* vectors prepared.
C29_BatchedUpsert ==
    /\ ingest.pc \in {"upsert", "done"} /\ ingest.file = "present" =>
          /\ ingest.vectors_to_upsert = GoodAds(ingest.n, ingest.badAds)
          /\ ingest.skipped = ingest.badAds
          /\ \A b \in 1..Len(ingest.submitted) :
                /\ Len(ingest.submitted[b].batch) \in 1..100
                /\ ingest.submitted[b].ok <=> b \notin ingest.badBatches
          /\ IsPrefix(Submitted(ingest.submitted), ingest.vectors_to_upsert)
    /\ ingest.pc = "done" /\ ingest.file = "present" =>
          /\ Submitted(ingest.submitted) = ingest.vectors_to_upsert
          /\ \A k \in 1..Len(ingest.vectors_to_upsert) :
                Cardinality({b \in 1..Len(ingest.submitted) :
                    ingest.vectors_to_upsert[k]
                        \in Range(ingest.submitted[b].batch)}) = 1

\* A run that skipped an ad, whose first batch failed, and that still
\* submitted a second batch.
C29_Witness ==
    /\ ingest.pc = "done"
    /\ ingest.skipped # {}
    /\ Len(ingest.submitted) >= 2
    /\ ~ingest.submitted[1].ok
    /\ Len(ingest.submitted[1].batch) = BatchSize

\* ------------------------------------------------------------ fetch_all_ads
NoUrl == 0

\* What a GET of one page can give: a RequestException (connection error,
\* HTTP error status, a body that is not JSON), a JSON document without
\* 'data', one whose 'data' is empty, or one with ads.
PageKinds == {[kind |-> "fail", count |-> 0],
              [kind |-> "nodata", count |-> 0],
              [kind |-> "empty", count |-> 0],
              [kind |-> "ads", count |-> 1],
              [kind |-> "ads", count |-> 2]}

RECURSIVE Chains(_)
Chains(n) ==
    IF n = 0 THEN {<<>>}
    ELSE {Append(c, k) : c \in Chains(n - 1), k \in PageKinds}

\* A finite chain of result pages: page i is what the URL of page i serves,
\* and paging.next of page i is the URL of page i + 1, absent on the last.
PageChains == UNION {Chains(n) : n \in 1..MaxPages}

\* data['data'] of page p: its ads, each named by page and place.
PageData(pages, p) == [j \in 1..pages[p].count |-> <<p, j>>]

\* data.get('paging', {}).get('next') of page p.
NextLink(pages, p) == IF p < Len(pages) THEN p + 1 ELSE NoUrl

\* fetch_all_ads is called: all_ads is empty and url is the ads endpoint.
InitFetch ==
    /\ AppIdle
    /\ ingest = NoScript
    /\ compose = NoScript
    /\ \E pages \in PageChains :
          fetch = [pc |-> "loop", pages |-> pages, url |-> 1, page_num |-> 1,
                   all_ads |-> <<>>, requested |-> <<>>, result |-> <<>>]

\* One pass of `while url:` that gives up what it has collected when the
\* request fails.
FetchPage_DropOnFailure ==
    /\ fetch.pc = "loop"
    /\ fetch.url # NoUrl
    /\ LET page == fetch.pages[fetch.url]
           asked == Append(fetch.requested, fetch.url)
       IN fetch' =
            IF page.kind = "fail"
            THEN [fetch EXCEPT !.pc = "break", !.requested = asked,
                               !.all_ads = <<>>]
            ELSE IF page.kind = "ads"
            THEN [fetch EXCEPT
                    !.requested = asked,
                    !.all_ads = @ \o PageData(fetch.pages, fetch.url),
                    !.url = NextLink(fetch.pages, fetch.url),
                    !.page_num = @ + 1]
            ELSE [fetch EXCEPT !.pc = "break", !.requested = asked]
    /\ UNCHANGED <<app, ingest, compose>>

\* One pass of `while url:`: the page is requested; a RequestException
\* breaks; a page with ads has each ad appended, then url becomes its next
\* link and page_num grows; a page without ads breaks.
FetchPage ==
    /\ fetch.pc = "loop"
    /\ fetch.url # NoUrl
    /\ LET page == fetch.pages[fetch.url]
           asked == Append(fetch.requested, fetch.url)
       IN fetch' =
            IF page.kind = "fail"
            THEN [fetch EXCEPT !.pc = "break", !.requested = asked]
            ELSE IF page.kind = "ads"
            THEN [fetch EXCEPT
                    !.requested = asked,
                    !.all_ads = @ \o PageData(fetch.pages, fetch.url),
                    !.url = NextLink(fetch.pages, fetch.url),
                    !.page_num = @ + 1]
            ELSE [fetch EXCEPT !.pc = "break", !.requested = asked]
    /\ UNCHANGED <<app, ingest, compose>>

\* The loop was left by break or by a falsy url: `return all_ads, ...`.
ReturnAds ==
    /\ \/ fetch.pc = "break"
       \/ fetch.pc = "loop" /\ fetch.url = NoUrl
    /\ fetch' = [fetch EXCEPT !.pc = "returned", !.result = fetch.all_ads]
    /\ UNCHANGED <<app, ingest, compose>>

NextFetch ==
    \/ FetchPage
    \/ ReturnAds

\* The interpreter runs the function to its end: a step that can be taken
\* is taken.
SpecFetch == InitFetch /\ [][NextFetch]_vars /\ WF_vars(NextFetch)

\* The pages at the head of the chain that were served with ads.
FetchedPages(pages) ==
    {p \in 1..Len(pages) : \A r \in 1..p : pages[r].kind = "ads"}

\* Ad x stands before ad y in page order.
Before(x, y) == x[1] < y[1] \/ (x[1] = y[1] /\ x[2] < y[2])

C30_Returned ==
    fetch.pc = "returned" =>
        LET pages == fetch.pages
            got == FetchedPages(pages)
            m == Cardinality(got)
        IN /\ \/ m = Len(pages)
              \/ m < Len(pages) /\ pages[m + 1].kind \in {"nodata", "empty"}
              \/ m < Len(pages) /\ pages[m + 1].kind = "fail"
           /\ \A p \in got : \A j \in 1..pages[p].count :
                 Cardinality(Positions(fetch.result, <<p, j>>)) = 1
           /\ \A i \in 1..Len(fetch.result) :
                 /\ fetch.result[i][1] \in got
                 /\ fetch.result[i][2] \in 1..pages[fetch.result[i][1]].count
           /\ \A i, k \in 1..Len(fetch.result) :
                 i < k => Before(fetch.result[i], fetch.result[k])
           /\ \A i \in 1..Len(fetch.requested) : fetch.requested[i] = i
           /\ Len(fetch.requested) = IF m < Len(pages) THEN m + 1 ELSE m

C30_Terminated == fetch.pc = "returned"

\* C30: on every finite chain of result pages fetch_all_ads returns; it has
\* then requested each page up to the first one without ads, without a next
\* link or whose request failed, once and in order, and what it returns is
\* every ad of the pages served with ads before that point, each once, in
\* page order.
C30_FetchAllAds == <>C30_Terminated /\ []C30_Returned

\* Two pages of ads were collected, the third request failed, and the ads
\* of the two pages were returned.
C30_Witness ==
    /\ fetch.pc = "returned"
    /\ Len(fetch.pages) = 3
    /\ fetch.pages[3].kind = "fail"
    /\ Len(fetch.requested) = 3
    /\ Len(fetch.result) >= 2
    /\ fetch.result[1] = <<1, 1>>
    /\ fetch.result[Len(fetch.result)][1] = 2

====
